---- MODULE Spec2Model ----
(***************************************************************************)
(* Model of the Garmin session manager and metrics aggregator of ai-coach  *)
(* (src/services/garmin.py) and of its credential resolver                 *)
(* (src/services/secrets.py).                                              *)
(*                                                                         *)
(* Python values: None is the string "None"; a credential is a string;     *)
(* dicts are records, a missing key is a missing field.  The upstream      *)
(* Garmin client, Secret Manager and the file system are the environment:  *)
(* what they answer is either part of the state (the environment           *)
(* variables, the token directory, the upstream data) or an input of the   *)
(* call drawn with \E (an upstream call raising or not).  The upstream's   *)
(* answers have the types the code expects of them (a nested entry is a    *)
(* dict or missing, a duration is a number), and TOKEN_DIR.exists() does   *)
(* not raise.                                                              *)
(***************************************************************************)
EXTENDS Integers, Sequences, FiniteSets, TLC

VARIABLES
    client,            \* GarminService.client
    environ,           \* os.environ: GARMIN_EMAIL and GARMIN_PASSWORD
    secret_cache,      \* secrets._secret_cache
    tokenDir,          \* TOKEN_DIR on disk: "absent", "empty" or "tokens"
    lastOp,            \* the operation that produced this state
    loginRet,          \* what the last login() returned
    loginTrace,        \* what the last login() was given and did
    today,             \* date.today(), as a day number
    summaryUp,         \* upstream: what get_user_summary(today) answers
    sleepUp,           \* upstream: what get_sleep_data(date) answers, per date
    readinessUp,       \* upstream: what get_training_readiness(today) answers
    stats,             \* what the last get_today_stats() returned
    prevStats,         \* what the get_today_stats() before that returned
    fetchLog,          \* the upstream calls the last get_today_stats() made
    statsTrace,        \* what the last get_today_stats() found when it was called
    upDirty,           \* the upstream changed since the last get_today_stats()
    activitiesUp,      \* upstream: the activity list, in upstream order
    recent,            \* what the last get_recent_activities() returned
    actTrace           \* what the last get_recent_activities() was given and asked

authRest == <<environ, secret_cache, tokenDir, loginRet, loginTrace>>
upVars == <<today, summaryUp, sleepUp, readinessUp, activitiesUp>>
statsVars == <<stats, prevStats, fetchLog, statsTrace, upDirty>>
actVars == <<recent, actTrace>>

vars == <<client, environ, secret_cache, tokenDir, lastOp, loginRet, loginTrace,
          today, summaryUp, sleepUp, readinessUp, stats, prevStats, fetchLog,
          statsTrace, upDirty,
          activitiesUp, recent, actTrace>>

----------------------------------------------------------------------------
(* Python values *)

None == "None"

\* bool(v) of a str | None
Truthy(v) == v \notin {None, ""}

\* a or b
PyOr(a, b) == IF Truthy(a) THEN a ELSE b

----------------------------------------------------------------------------
(* services/secrets.py *)

SecretIds == {"garmin-email", "garmin-password"}

EnvNames == {"GARMIN_EMAIL", "GARMIN_PASSWORD"}

\* The values an environment variable of the model can hold.
EnvValues(name) ==
    IF name = "GARMIN_EMAIL" THEN {None, "env_email"} ELSE {None, "env_pw"}

AllEnvValues == UNION {EnvValues(n) : n \in EnvNames}

\* The environments a process of the model can run in.
Environments == {e \in [EnvNames -> AllEnvValues] : \A n \in EnvNames : e[n] \in EnvValues(n)}

\* The latest version of each secret held by Secret Manager.
SecretStore == [id \in SecretIds |->
                  IF id = "garmin-email" THEN "sm_email" ELSE "sm_pw"]

\* os.getenv(name)
GetEnv(env, name) == env[name]

\* The cache check that opens get_secret: the cached value, None if there is none.
CacheLookup(cache, secret_id) == cache[secret_id]

\* get_secret(secret_id, env_fallback).  smOk[secret_id]: the try block of
\* lines 65-85 reaches Secret Manager and gets the secret (the import
\* works, a project id is found, access_secret_version answers); any other
\* course of it returns None and caches nothing.
\* Returns the value and the new _secret_cache.
GetSecret(secret_id, env_fallback, env, cache, smOk) ==
    LET env_value == GetEnv(env, env_fallback)
    IN  IF CacheLookup(cache, secret_id) # None
        THEN [value |-> CacheLookup(cache, secret_id), cache |-> cache]
        ELSE IF Truthy(env_value)
        THEN [value |-> env_value, cache |-> cache]
        ELSE IF ~smOk[secret_id]
        THEN [value |-> None, cache |-> cache]
        ELSE [value |-> SecretStore[secret_id],
              cache |-> [cache EXCEPT ![secret_id] = SecretStore[secret_id]]]

\* get_garmin_credentials(): the two secrets, one after the other.
GetGarminCredentials(env, cache, smOk) ==
    LET e == GetSecret("garmin-email", "GARMIN_EMAIL", env, cache, smOk)
        p == GetSecret("garmin-password", "GARMIN_PASSWORD", env, e.cache, smOk)
    IN  [email |-> e.value, password |-> p.value, cache |-> p.cache]

SmInputs == [SecretIds -> BOOLEAN]

----------------------------------------------------------------------------
(* services/garmin.py: GarminService.login *)

NoClient == [via |-> "none", email |-> None, password |-> None]

\* Garmin() after login(tokenstore=...)
ResumedClient == [via |-> "tokenstore", email |-> None, password |-> None]

\* Garmin(email, password) after login()
FreshClient(email, password) == [via |-> "credentials", email |-> email, password |-> password]

EmailArgs == {None, "", "arg_email"}
PasswordArgs == {None, "arg_pw"}

\* Lines 65-68: the credentials login() goes on with.
ResolveCredentials(email, password, env, cache, smOk) ==
    IF ~Truthy(email) \/ ~Truthy(password)
    THEN LET s == GetGarminCredentials(env, cache, smOk)
         IN  [email |-> PyOr(email, s.email), password |-> PyOr(password, s.password),
              cache |-> s.cache]
    ELSE [email |-> email, password |-> password, cache |-> cache]

\* TOKEN_DIR.exists()
TokenDirExists(dir) == dir # "absent"

\* Lines 91-95 and what reaches the outer handler: persist is "ok",
\* "mkdir_oserror", "dump_oserror" or "dump_error" (dump raising something
\* that is no OSError).  fatal: the exception leaves the inner try.
PersistOutcomes == {"ok", "mkdir_oserror", "dump_oserror", "dump_error"}

PersistTokens(dir, persist) ==
    LET made == IF dir = "absent" THEN "empty" ELSE dir
    IN  CASE persist = "mkdir_oserror" ->
               [dir |-> dir, fsOps |-> {"mkdir"}, fatal |-> FALSE]
          [] persist = "dump_oserror" ->
               [dir |-> made, fsOps |-> {"mkdir", "dump"}, fatal |-> FALSE]
          [] persist = "dump_error" ->
               [dir |-> made, fsOps |-> {"mkdir", "dump"}, fatal |-> TRUE]
          [] persist = "ok" ->
               [dir |-> "tokens", fsOps |-> {"mkdir", "dump"}, fatal |-> FALSE]

\* FreshLogin with the directory made before client.login() is tried.
FreshLogin_MkdirFirst(email, password, dir, freshOk, persist) ==
    IF ~freshOk
    THEN [client |-> NoClient, ret |-> FALSE,
          dir |-> IF dir = "absent" THEN "empty" ELSE dir, fsOps |-> {"mkdir"}]
    ELSE LET p == PersistTokens(dir, persist)
         IN  IF p.fatal
             THEN [client |-> NoClient, ret |-> FALSE, dir |-> p.dir, fsOps |-> p.fsOps]
             ELSE [client |-> FreshClient(email, password), ret |-> TRUE,
                   dir |-> p.dir, fsOps |-> p.fsOps]

\* Lines 87-102: the fresh login.  freshOk: client.login() does not raise.
FreshLogin(email, password, dir, freshOk, persist) ==
    IF ~freshOk
    THEN [client |-> NoClient, ret |-> FALSE, dir |-> dir, fsOps |-> {}]
    ELSE LET p == PersistTokens(dir, persist)
         IN  IF p.fatal
             THEN [client |-> NoClient, ret |-> FALSE, dir |-> p.dir, fsOps |-> p.fsOps]
             ELSE [client |-> FreshClient(email, password), ret |-> TRUE,
                   dir |-> p.dir, fsOps |-> p.fsOps]

\* NoCredentials without line 84: the handle of an earlier login survives.
NoCredentials_KeepsHandle(old) == [client |-> old, ret |-> FALSE]

\* Lines 82-85: no credentials and no resumed session.  old is self.client
\* as the call found it.
NoCredentials(old) == [client |-> NoClient, ret |-> FALSE]

\* Lines 71-77: the session resumed from the stored tokens.
Resumed(old) == [client |-> ResumedClient, ret |-> TRUE]

\* LoginPath with the credential check of line 82 moved before the resume.
LoginPath_CredentialsFirst(dirExists, resumeOk, email, password) ==
    IF ~Truthy(email) \/ ~Truthy(password) THEN "nocreds"
    ELSE IF dirExists /\ resumeOk THEN "resumed"
    ELSE "fresh"

\* The way login() takes through lines 70-87: "resumed" (return at line 77),
\* "nocreds" (return at line 85) or "fresh" (the try of line 87).
LoginPath(dirExists, resumeOk, email, password) ==
    IF dirExists /\ resumeOk THEN "resumed"
    ELSE IF ~Truthy(email) \/ ~Truthy(password) THEN "nocreds"
    ELSE "fresh"

NoTrace == [email_arg |-> None, password_arg |-> None, email |-> None,
            password |-> None, priorHandle |-> FALSE, dirExisted |-> FALSE,
            resumeOk |-> FALSE, path |-> "none", freshOk |-> FALSE,
            persist |-> "none", fsOps |-> {}]

\* login(email, password): sm, resumeOk, freshOk and persist are what the
\* environment answers during the call (resumeOk: restoring the session from
\* TOKEN_DIR does not raise; freshOk: client.login() does not raise).
Login(email_arg, password_arg, sm, resumeOk, freshOk, persist) ==
    LET cr == ResolveCredentials(email_arg, password_arg, environ, secret_cache, sm)
        path == LoginPath(TokenDirExists(tokenDir), resumeOk, cr.email, cr.password)
        tr == [NoTrace EXCEPT !.email_arg = email_arg, !.password_arg = password_arg,
                              !.email = cr.email, !.password = cr.password,
                              !.priorHandle = (client # NoClient),
                              !.dirExisted = TokenDirExists(tokenDir),
                              !.resumeOk = resumeOk, !.path = path]
    IN  /\ secret_cache' = cr.cache
        /\ lastOp' = "login"
        /\ UNCHANGED <<environ, upVars, statsVars, actVars>>
        /\ CASE path = "resumed" ->
                LET r == Resumed(client)
                IN  /\ client' = r.client
                    /\ loginRet' = r.ret
                    /\ loginTrace' = tr
                    /\ UNCHANGED tokenDir
             [] path = "nocreds" ->
                LET r == NoCredentials(client)
                IN  /\ client' = r.client
                    /\ loginRet' = r.ret
                    /\ loginTrace' = tr
                    /\ UNCHANGED tokenDir
             [] path = "fresh" ->
                LET r == FreshLogin(cr.email, cr.password, tokenDir, freshOk, persist)
                IN  /\ client' = r.client
                    /\ loginRet' = r.ret
                    /\ tokenDir' = r.dir
                    /\ loginTrace' = [tr EXCEPT !.freshOk = freshOk, !.persist = persist,
                                                !.fsOps = r.fsOps]

\* The stored tokens can only be restored when there are tokens in the directory.
ResumeOutcomes(dir) == IF dir = "tokens" THEN BOOLEAN ELSE {FALSE}

\* What Secret Manager can be asked in a call: get_secret reaches it for
\* a secret only when login() resolves credentials, the cache has no value
\* for the secret and its environment variable is not set.
SmAsked(email_arg, password_arg, env, cache) ==
    {sm \in SmInputs :
        \A id \in SecretIds :
          LET name == IF id = "garmin-email" THEN "GARMIN_EMAIL" ELSE "GARMIN_PASSWORD"
          IN  sm[id] => /\ ~Truthy(email_arg) \/ ~Truthy(password_arg)
                        /\ CacheLookup(cache, id) = None
                        /\ ~Truthy(GetEnv(env, name))}

\* Whether the call gets as far as client.login() with credentials.
FreshAsked(email_arg, password_arg, sm, resumeOk) ==
    LET cr == ResolveCredentials(email_arg, password_arg, environ, secret_cache, sm)
    IN  LoginPath(TokenDirExists(tokenDir), resumeOk, cr.email, cr.password) = "fresh"

DoLogin ==
    \E email_arg \in EmailArgs, password_arg \in PasswordArgs :
      \E sm \in SmAsked(email_arg, password_arg, environ, secret_cache) :
        \E resumeOk \in ResumeOutcomes(tokenDir) :
          \E freshOk \in IF FreshAsked(email_arg, password_arg, sm, resumeOk)
                          THEN BOOLEAN ELSE {FALSE} :
            \E persist \in IF freshOk THEN PersistOutcomes ELSE {"none"} :
              Login(email_arg, password_arg, sm, resumeOk, freshOk, persist)

\* The process environment changes (os.environ is read afresh by every get_secret).
SetEnv ==
    \E name \in EnvNames : \E v \in EnvValues(name) :
        /\ environ[name] # v
        /\ environ' = [environ EXCEPT ![name] = v]
        /\ lastOp' = "setenv"
        /\ UNCHANGED <<client, secret_cache, tokenDir, loginRet, loginTrace>>
        /\ UNCHANGED <<upVars, statsVars, actVars>>

----------------------------------------------------------------------------
(* Values of the metrics side.  What the upstream answers and what the     *)
(* aggregator returns are records: Null is None, Box(x) a scalar, Raise an *)
(* upstream call that raises; a dict is a record and a missing key is a    *)
(* missing field.                                                          *)

Null == [null |-> TRUE]

Box(x) == [v |-> x]

Raise == [raise |-> TRUE]

EmptyDict == [empty |-> "dict"]

ListOf(s) == [list |-> s]

\* not x, for an upstream answer
Falsy(x) == x \in {Null, EmptyDict, ListOf(<<>>)}

\* d.get(k)
Get(d, k) == IF k \in DOMAIN d THEN d[k] ELSE Null

\* d.get(k) or {}
GetDict(d, k) == IF k \in DOMAIN d /\ ~Falsy(d[k]) THEN d[k] ELSE EmptyDict

\* d.get(k) or 0, for a number
GetNum(d, k) == IF k \in DOMAIN d THEN d[k] ELSE 0

\* date.isoformat() of a day number, as <<year, month, day>>: the fields of
\* the zero-padded string, which compare as the string does.  Day 20 is
\* 2023-12-31; the model's dates lie in December 2023 and January 2024.
IsoFormat(n) == IF n <= 20 THEN <<2023, 12, n + 11>> ELSE <<2024, 1, n - 20>>

\* a >= b for two ISO date strings
IsoGeq(a, b) ==
    \/ a[1] > b[1]
    \/ a[1] = b[1] /\ a[2] > b[2]
    \/ a[1] = b[1] /\ a[2] = b[2] /\ a[3] >= b[3]

\* round(num / den) for num >= 0 and den > 0: halves go to the even neighbour.
Round(num, den) ==
    LET q == num \div den
        r == num % den
    IN  IF 2 * r < den THEN q
        ELSE IF 2 * r > den THEN q + 1
        ELSE IF q % 2 = 0 THEN q ELSE q + 1

----------------------------------------------------------------------------
(* services/garmin.py: _humanize_sleep_feedback *)

feedback_map ==
    [POSITIVE_LONG_AND_DEEP |-> "Long sleep with good deep sleep",
     POSITIVE_SHORT_BUT_DEEP |-> "Short but restorative with good deep sleep",
     POSITIVE_OVERALL_GOOD |-> "Good overall sleep quality",
     NEGATIVE_LONG_BUT_NOT_ENOUGH_REM |-> "Long sleep but not enough REM",
     NEGATIVE_LONG_BUT_NOT_ENOUGH_DEEP |-> "Long sleep but not enough deep sleep",
     NEGATIVE_SHORT_AND_LIGHT |-> "Short and light sleep",
     NEGATIVE_TOO_MUCH_AWAKE |-> "Too much time awake during the night",
     NEGATIVE_RESTLESS |-> "Restless sleep"]

\* A code outside the table is rewritten letter by letter (line 37); the
\* result is kept as the code it was made from.
HumanizeSleepFeedback(feedback) ==
    IF feedback = "" THEN Null
    ELSE IF feedback \in DOMAIN feedback_map THEN Box(feedback_map[feedback])
    ELSE [humanized |-> feedback]

----------------------------------------------------------------------------
(* services/garmin.py: GarminService.get_today_stats *)

\* range(7) of the sleep scan
Window == 7

\* What get_user_summary can answer.
SummaryData ==
    [restingHeartRate |-> Box(52), bodyBatteryMostRecentValue |-> Box(60),
     bodyBatteryHighestValue |-> Box(95), averageStressLevel |-> Box(30)]

SummaryUpdated ==
    [restingHeartRate |-> Box(52), lastSevenDaysAvgRestingHeartRate |-> Box(54),
     bodyBatteryMostRecentValue |-> Box(41), bodyBatteryHighestValue |-> Box(95),
     averageStressLevel |-> Box(33), highStressDuration |-> Box(600)]

SummaryResponses == {Raise, Null, EmptyDict, SummaryData, SummaryUpdated}

\* What get_sleep_data can answer for a date.
SleepNoDuration ==
    [dailySleepDTO |-> [deepSleepSeconds |-> 1800,
                        sleepScoreFeedback |-> "POSITIVE_OVERALL_GOOD"]]

SleepZero ==
    [dailySleepDTO |-> [sleepTimeSeconds |-> 0, deepSleepSeconds |-> 600,
                        sleepScores |-> [overall |-> [value |-> Box(10)]]]]

SleepOk ==
    [dailySleepDTO |->
       [sleepTimeSeconds |-> 7200, deepSleepSeconds |-> 1800,
        lightSleepSeconds |-> 3700, remSleepSeconds |-> 1500,
        sleepScores |-> [overall |-> [value |-> Box(80), qualifierKey |-> Box("GOOD")],
                         deepPercentage |-> [qualifierKey |-> Box("EXCELLENT")]],
        sleepScoreFeedback |-> "NEGATIVE_FOO_BAR"]]

SleepResponses == {Raise, Null, SleepNoDuration, SleepZero, SleepOk}

\* What get_training_readiness can answer.
ReadinessMorning ==
    [score |-> Box(71), level |-> Box("HIGH"), recoveryTime |-> 90,
     sleepScoreFactorFeedback |-> Box("GOOD")]

ReadinessLater == [score |-> Box(64), level |-> Box("MODERATE"), recoveryTime |-> 0]

ReadinessResponses ==
    {Raise, Null, ListOf(<<>>), ListOf(<<ReadinessMorning, ReadinessLater>>), ReadinessLater}

\* A call the aggregator makes upstream.
Fetch(op, date) == [op |-> op, date |-> date]

\* Lines 129-151.  st is the snapshot being built and the log of calls.
BodyStage(st, day, summary) ==
    LET st1 == [st EXCEPT !.log = Append(@, Fetch("get_user_summary", day))]
    IN  IF summary = Raise
        THEN [st1 EXCEPT !.stats = @ @@ ("body" :> Null)]
        ELSE IF ~Falsy(summary)
        THEN [st1 EXCEPT !.stats = @ @@ ("body" :>
                [resting_hr |-> Get(summary, "restingHeartRate"),
                 resting_hr_7day_avg |-> Get(summary, "lastSevenDaysAvgRestingHeartRate"),
                 body_battery |->
                   [current |-> Get(summary, "bodyBatteryMostRecentValue"),
                    charged |-> Get(summary, "bodyBatteryChargedValue"),
                    drained |-> Get(summary, "bodyBatteryDrainedValue"),
                    high |-> Get(summary, "bodyBatteryHighestValue"),
                    low |-> Get(summary, "bodyBatteryLowestValue")],
                 stress |->
                   [avg |-> Get(summary, "averageStressLevel"),
                    max |-> Get(summary, "maxStressLevel"),
                    high_duration_seconds |-> Get(summary, "highStressDuration")]])]
        ELSE st1

\* Line 163: if sleep_seconds and sleep_seconds > 0
UsableSleep(sleep_data) ==
    /\ ~Falsy(sleep_data)
    /\ LET daily_sleep == GetDict(sleep_data, "dailySleepDTO")
       IN  /\ "sleepTimeSeconds" \in DOMAIN daily_sleep
           /\ daily_sleep.sleepTimeSeconds > 0

\* Lines 167-191: one stage of the sleep record.
SleepStageRecord(daily_sleep, scores, secondsKey, scoreKey) ==
    [pct |-> Box(Round(GetNum(daily_sleep, secondsKey) * 100, daily_sleep.sleepTimeSeconds)),
     quality |-> Get(GetDict(scores, scoreKey), "qualifierKey")]

\* Lines 164-191: the sleep record of check_date.  duration_hours is in tenths.
SleepRecord(check_date, sleep_data) ==
    LET daily_sleep == GetDict(sleep_data, "dailySleepDTO")
        scores == GetDict(daily_sleep, "sleepScores")
        raw_feedback == IF "sleepScoreFeedback" \in DOMAIN daily_sleep
                        THEN daily_sleep.sleepScoreFeedback ELSE ""
    IN  [date |-> Box(IsoFormat(check_date)),
         score |-> Get(GetDict(scores, "overall"), "value"),
         quality |-> Get(GetDict(scores, "overall"), "qualifierKey"),
         duration_hours |-> Box(Round(daily_sleep.sleepTimeSeconds * 10, 3600)),
         feedback |-> HumanizeSleepFeedback(raw_feedback),
         stages |->
           [deep |-> SleepStageRecord(daily_sleep, scores, "deepSleepSeconds", "deepPercentage"),
            light |-> SleepStageRecord(daily_sleep, scores, "lightSleepSeconds", "lightPercentage"),
            rem |-> SleepStageRecord(daily_sleep, scores, "remSleepSeconds", "remPercentage"),
            awake |-> SleepStageRecord(daily_sleep, scores, "awakeSleepSeconds", "awakeCount")]]

\* SleepScan whose break stands one level out: the scan ends at the first
\* date that has a record at all, usable or not.
RECURSIVE SleepScan_BreakEarly(_, _, _)
SleepScan_BreakEarly(days_ago, day, sleep) ==
    IF days_ago >= Window
    THEN [sleep |-> Null, log |-> <<>>, raised |-> FALSE]
    ELSE LET check_date == day - days_ago
             sleep_data == sleep[check_date]
             call == Fetch("get_sleep_data", check_date)
         IN  IF sleep_data = Raise
             THEN [sleep |-> Null, log |-> <<call>>, raised |-> TRUE]
             ELSE IF UsableSleep(sleep_data)
             THEN [sleep |-> SleepRecord(check_date, sleep_data), log |-> <<call>>,
                   raised |-> FALSE]
             ELSE IF ~Falsy(sleep_data)
             THEN [sleep |-> Null, log |-> <<call>>, raised |-> FALSE]
             ELSE LET rest == SleepScan_BreakEarly(days_ago + 1, day, sleep)
                  IN  [rest EXCEPT !.log = <<call>> \o @]

\* Lines 157-192: the scan from days_ago on.  Returns the record found (Null
\* if none), the calls made and whether one of them raised.
RECURSIVE SleepScan(_, _, _)
SleepScan(days_ago, day, sleep) ==
    IF days_ago >= Window
    THEN [sleep |-> Null, log |-> <<>>, raised |-> FALSE]
    ELSE LET check_date == day - days_ago
             sleep_data == sleep[check_date]
             call == Fetch("get_sleep_data", check_date)
         IN  IF sleep_data = Raise
             THEN [sleep |-> Null, log |-> <<call>>, raised |-> TRUE]
             ELSE IF UsableSleep(sleep_data)
             THEN [sleep |-> SleepRecord(check_date, sleep_data), log |-> <<call>>,
                   raised |-> FALSE]
             ELSE LET rest == SleepScan(days_ago + 1, day, sleep)
                  IN  [rest EXCEPT !.log = <<call>> \o @]

\* SleepStage whose handler, when a fetch raises, drops the body as well.
SleepStage_DropsBody(st, day, sleep) ==
    LET scan == SleepScan(0, day, sleep)
    IN  IF scan.raised
        THEN [st EXCEPT !.log = @ \o scan.log, !.stats = [date |-> st.stats.date, sleep |-> Null]]
        ELSE [st EXCEPT !.log = @ \o scan.log, !.stats = @ @@ ("sleep" :> scan.sleep)]

\* Lines 153-195.
SleepStage(st, day, sleep) ==
    LET scan == SleepScan(0, day, sleep)
    IN  [st EXCEPT !.log = @ \o scan.log, !.stats = @ @@ ("sleep" :> scan.sleep)]

\* Lines 203-216: the recovery record of the latest reading.  recovery_time_hours
\* is in tenths.
RecoveryRecord(latest) ==
    LET recovery_minutes == GetNum(latest, "recoveryTime")
    IN  [score |-> Get(latest, "score"),
         level |-> Get(latest, "level"),
         feedback |-> Get(latest, "feedbackShort"),
         recovery_time_hours |-> IF recovery_minutes # 0
                                 THEN Box(Round(recovery_minutes * 10, 60)) ELSE Null,
         hrv_weekly_avg |-> Get(latest, "hrvWeeklyAverage"),
         factors |-> [sleep |-> Get(latest, "sleepScoreFactorFeedback"),
                      recovery_time |-> Get(latest, "recoveryTimeFactorFeedback"),
                      training_load |-> Get(latest, "acwrFactorFeedback")]]

\* Lines 197-219.
RecoveryStage(st, day, tr_data) ==
    LET st1 == [st EXCEPT !.log = Append(@, Fetch("get_training_readiness", day))]
    IN  IF tr_data = Raise \/ Falsy(tr_data)
        THEN [st1 EXCEPT !.stats = @ @@ ("recovery" :> Null)]
        ELSE LET latest == IF "list" \in DOMAIN tr_data THEN tr_data.list[1] ELSE tr_data
             IN  [st1 EXCEPT !.stats = @ @@ ("recovery" :> RecoveryRecord(latest))]

\* get_today_stats(): the snapshot and the calls made.
TodayStats(c, day, summary, sleep, tr_data) ==
    IF c = NoClient
    THEN [stats |-> [error |-> Box("Not logged in")], log |-> <<>>]
    ELSE RecoveryStage(
           SleepStage(
             BodyStage([stats |-> [date |-> Box(IsoFormat(day))], log |-> <<>>],
                       day, summary),
             day, sleep),
           day, tr_data)

\* get_today_stats that drops the session when the summary could not be read.
HandleAfterStats_DropOnFailure(c, snapshot) ==
    IF "body" \in DOMAIN snapshot /\ snapshot.body = Null THEN NoClient ELSE c

\* self.client after get_today_stats(): the method only reads it.
HandleAfterStats(c, snapshot) == c

NoStats == [none |-> TRUE]

NoStatsTrace == [hadPrev |-> FALSE, upstreamSame |-> FALSE, handleBefore |-> NoClient]

GetTodayStats ==
    LET r == TodayStats(client, today, summaryUp, sleepUp, readinessUp)
    IN  /\ stats' = r.stats
        /\ fetchLog' = r.log
        /\ prevStats' = stats
        /\ statsTrace' = [hadPrev |-> stats # NoStats, upstreamSame |-> ~upDirty,
                          handleBefore |-> client]
        /\ upDirty' = FALSE
        /\ client' = HandleAfterStats(client, r.stats)
        /\ lastOp' = "stats"
        /\ UNCHANGED <<environ, secret_cache, tokenDir, loginRet, loginTrace>>
        /\ UNCHANGED <<upVars, actVars>>

\* The upstream's summary of today changes as the day goes on.
SummaryChanges ==
    \E s \in SummaryResponses :
        /\ s # summaryUp
        /\ summaryUp' = s
        /\ upDirty' = TRUE
        /\ lastOp' = "upstream"
        /\ UNCHANGED <<today, sleepUp, readinessUp, activitiesUp>>
        /\ UNCHANGED <<client, authRest, stats, prevStats, fetchLog, statsTrace, actVars>>

----------------------------------------------------------------------------
(* services/garmin.py: GarminService.get_recent_activities *)

\* An activity the upstream holds, started on a day at 08:00:00 local time.
Activity(day) ==
    [startTimeLocal |-> [date |-> IsoFormat(day), time |-> "08:00:00"],
     activityType |-> [typeKey |-> "running"],
     activityName |-> "Morning Run",
     duration |-> 1830]

\* An activity without startTimeLocal and without a type.
ActivityNoStart == [activityName |-> "Manual entry", duration |-> 600]

\* start_time.split("T")[0]
SplitT(start_time) == start_time.date

\* get_activities(start, limit): the answer when the call does not raise.
GetActivities(upstream, start, limit) ==
    SubSeq(upstream, start + 1, IF Len(upstream) < start + limit THEN Len(upstream)
                                ELSE start + limit)

\* CutoffDay that looks back a day too far.
CutoffDay_OffByOne(day, days) == day - days

\* Line 240: date.today() - timedelta(days=days - 1)
CutoffDay(day, days) == day - (days - 1)

\* Line 248: act_date >= cutoff.isoformat()
DateOnOrAfter(act_date, cutoff) == IsoGeq(act_date, cutoff)

\* Lines 249-254: the record of a retained activity.  duration_minutes is in tenths.
ActivityRecord(act) ==
    [date |-> SplitT(act.startTimeLocal),
     type |-> IF "activityType" \in DOMAIN act /\ "typeKey" \in DOMAIN act.activityType
              THEN act.activityType.typeKey ELSE "unknown",
     name |-> IF "activityName" \in DOMAIN act THEN act.activityName ELSE "",
     duration_minutes |-> Round(GetNum(act, "duration") * 10, 60)]

\* Lines 243-254: the loop over the fetched activities.
RECURSIVE FilterRecent(_, _)
FilterRecent(activities, cutoff) ==
    IF activities = <<>> THEN <<>>
    ELSE LET act == Head(activities)
             rest == FilterRecent(Tail(activities), cutoff)
         IN  IF "startTimeLocal" \in DOMAIN act
                /\ DateOnOrAfter(SplitT(act.startTimeLocal), cutoff)
             THEN <<ActivityRecord(act)>> \o rest
             ELSE rest

NoActTrace == [days |-> 0, handle |-> FALSE, raised |-> FALSE, start |-> 0, limit |-> 0]

\* get_recent_activities(days); fetchOk: get_activities does not raise.
RecentActivities(c, day, days, upstream, fetchOk) ==
    IF c = NoClient
    THEN [recent |-> <<>>, trace |-> [NoActTrace EXCEPT !.days = days]]
    ELSE IF ~fetchOk
    THEN [recent |-> <<>>,
          trace |-> [days |-> days, handle |-> TRUE, raised |-> TRUE,
                     start |-> 0, limit |-> days * 2]]
    ELSE [recent |-> FilterRecent(GetActivities(upstream, 0, days * 2),
                                  IsoFormat(CutoffDay(day, days))),
          trace |-> [days |-> days, handle |-> TRUE, raised |-> FALSE,
                     start |-> 0, limit |-> days * 2]]

\* The largest days argument of the model.
MaxDays == 7

\* The longest upstream activity list of the model.
MaxActs == 3

GetRecentActivities ==
    \E days \in 1..MaxDays, fetchOk \in BOOLEAN :
        LET r == RecentActivities(client, today, days, activitiesUp, fetchOk)
        IN  /\ recent' = r.recent
            /\ actTrace' = r.trace
            /\ lastOp' = "activities"
            /\ UNCHANGED <<client, authRest, upVars, statsVars>>

----------------------------------------------------------------------------
(* Initial states and specifications *)

\* The dates the sleep scan of a day can ask for.
SleepDates(day) == (day - (Window - 1))..day

\* The session manager at rest with handle c.
IdleAuth(c) ==
    /\ client = c
    /\ environ = [n \in EnvNames |-> None]
    /\ secret_cache = [id \in SecretIds |-> None]
    /\ tokenDir = "tokens"
    /\ loginRet = (c # NoClient)
    /\ loginTrace = NoTrace

\* No aggregator call made yet.
IdleMetrics ==
    /\ stats = NoStats
    /\ prevStats = NoStats
    /\ fetchLog = <<>>
    /\ statsTrace = NoStatsTrace
    /\ upDirty = FALSE
    /\ recent = <<>>
    /\ actTrace = NoActTrace

\* An upstream without data.
EmptyUpstream ==
    /\ summaryUp = Null
    /\ sleepUp = [d \in SleepDates(today) |-> Null]
    /\ readinessUp = Null
    /\ activitiesUp = <<>>

\* The session manager: a fresh process in any environment.
InitLogin ==
    /\ client = NoClient
    /\ environ \in Environments
    /\ secret_cache = [id \in SecretIds |-> None]
    /\ tokenDir \in {"absent", "empty", "tokens"}
    /\ lastOp = "init"
    /\ loginRet = FALSE
    /\ loginTrace = NoTrace
    /\ today = 30
    /\ EmptyUpstream
    /\ IdleMetrics

NextLogin == DoLogin \/ SetEnv

SpecLogin == InitLogin /\ [][NextLogin]_vars

\* How many of the latest days have sleep answers of their own in SpecStats.
SleepDepth == 2

\* The sleep answers of a window in which the days that lie more than
\* SleepDepth back all answer alike, with nothing or by raising.
ShallowSleep(day) ==
    {[d \in SleepDates(day) |-> IF d > day - SleepDepth THEN f[d] ELSE older] :
        f \in [(day - SleepDepth + 1)..day -> SleepResponses], older \in {Null, Raise}}

\* The aggregator's snapshot over any upstream, with and without a handle.
InitStats ==
    /\ \E c \in {NoClient, ResumedClient} : IdleAuth(c)
    /\ lastOp = "init"
    /\ today = 23
    /\ summaryUp \in SummaryResponses
    /\ sleepUp \in ShallowSleep(today)
    /\ readinessUp \in ReadinessResponses
    /\ activitiesUp = <<>>
    /\ IdleMetrics

NextStats == GetTodayStats \/ SummaryChanges

SpecStats == InitStats /\ [][NextStats]_vars

\* The sleep scan over every 7-day window of answers.
InitSleep ==
    /\ IdleAuth(ResumedClient)
    /\ lastOp = "init"
    /\ today = 23
    /\ summaryUp = SummaryData
    /\ sleepUp \in [SleepDates(today) -> SleepResponses]
    /\ readinessUp = ListOf(<<ReadinessMorning, ReadinessLater>>)
    /\ activitiesUp = <<>>
    /\ IdleMetrics

NextSleep == GetTodayStats

SpecSleep == InitSleep /\ [][NextSleep]_vars

\* The days the activities of the model start on: 2023-12-27, 2023-12-28,
\* 2024-01-03, 2024-01-04 and 2024-01-10.
ActDays == {16, 17, 23, 24, 30}

ActCatalog == {Activity(d) : d \in ActDays} \cup {ActivityNoStart}

ActLists == UNION {[1..n -> ActCatalog] : n \in 0..MaxActs}

\* The activity list over any upstream, on 2024-01-03 and on 2024-01-10.
InitActs ==
    /\ \E c \in {NoClient, ResumedClient} : IdleAuth(c)
    /\ lastOp = "init"
    /\ today \in {23, 30}
    /\ summaryUp = Null
    /\ sleepUp = [d \in SleepDates(today) |-> Null]
    /\ readinessUp = Null
    /\ activitiesUp \in ActLists
    /\ IdleMetrics

NextActs == GetRecentActivities

SpecActs == InitActs /\ [][NextActs]_vars

----------------------------------------------------------------------------
(* Session manager: claims *)

\* C1: after every login(), whatever came before it, the handle is non-null
\* if and only if the call returned True.
C1_HandleIffSuccess ==
    lastOp # "init" => ((client # NoClient) <=> loginRet)

\* C1 witness: a login() that failed after an earlier one had set the handle.
C1_Witness ==
    /\ lastOp = "login"
    /\ loginTrace.priorHandle
    /\ ~loginRet
    /\ client = NoClient

\* C2: when the fresh login against the upstream succeeds, any failure to
\* persist the tokens (mkdir or dump) is non-fatal: login() assigns the handle
\* and returns True.
C2_PersistFailureNonFatal ==
    (/\ lastOp = "login"
     /\ loginTrace.path = "fresh"
     /\ loginTrace.freshOk
     /\ loginTrace.persist # "ok")
    => (loginRet /\ client # NoClient)

\* The value login() went on with for the field of an environment variable.
ResolvedField(name) ==
    IF name = "GARMIN_EMAIL" THEN loginTrace.email ELSE loginTrace.password

\* The argument login() was given for the field of an environment variable.
ArgField(name) ==
    IF name = "GARMIN_EMAIL" THEN loginTrace.email_arg ELSE loginTrace.password_arg

\* C3: per field, at any point of the process lifetime: with an explicit
\* argument, an environment variable and a secret-store value present the
\* argument is used; with only the environment variable and the secret-store
\* value present the environment variable is used.  (Every secret of
\* SecretStore is present; login() leaves environ as it was read.)
C3_ResolutionOrder ==
    lastOp = "login" =>
      \A name \in EnvNames :
        /\ (Truthy(ArgField(name)) /\ Truthy(environ[name]))
              => ResolvedField(name) = ArgField(name)
        /\ (~Truthy(ArgField(name)) /\ Truthy(environ[name]))
              => ResolvedField(name) = environ[name]

\* C4: if TOKEN_DIR exists and the restore succeeds, login() assigns the
\* handle and returns True whatever the credentials are, and tries no fresh
\* login; if the restore fails the call goes on to the credential path.
C4_ResumeFirst ==
    lastOp = "login" =>
      /\ (loginTrace.dirExisted /\ loginTrace.resumeOk)
            => /\ client = ResumedClient
               /\ loginRet
               /\ loginTrace.path = "resumed"
               /\ loginTrace.fsOps = {}
      /\ (loginTrace.dirExisted /\ ~loginTrace.resumeOk)
            => /\ loginTrace.path \in {"nocreds", "fresh"}
               /\ loginTrace.path = "fresh"
                    <=> (Truthy(loginTrace.email) /\ Truthy(loginTrace.password))

\* C4 witness: a session resumed in a call that had no credentials at all.
C4_Witness ==
    /\ lastOp = "login"
    /\ loginTrace.dirExisted /\ loginTrace.resumeOk
    /\ ~Truthy(loginTrace.email) /\ ~Truthy(loginTrace.password)
    /\ loginRet

\* C10: TOKEN_DIR is created or written only inside a login() whose fresh
\* login against the upstream succeeded; every other step (a resumed
\* session, no credentials, a fresh login that raises) leaves it as it was.
C10_TokenStoreFrame ==
    [][(tokenDir' # tokenDir \/ (lastOp' = "login" /\ loginTrace'.fsOps # {}))
         => (lastOp' = "login" /\ loginTrace'.path = "fresh" /\ loginTrace'.freshOk)]_vars

\* C10 witness: a fresh login created the token directory and wrote the tokens.
C10_Witness ==
    /\ lastOp = "login"
    /\ loginTrace.path = "fresh" /\ loginTrace.freshOk
    /\ ~loginTrace.dirExisted
    /\ tokenDir = "tokens"

----------------------------------------------------------------------------
(* Metrics aggregator: claims *)

\* The answer for the date days_ago before today has a positive sleepTimeSeconds.
HasPositiveDuration(days_ago) ==
    LET a == sleepUp[today - days_ago]
    IN  /\ "dailySleepDTO" \in DOMAIN a
        /\ "sleepTimeSeconds" \in DOMAIN a.dailySleepDTO
        /\ a.dailySleepDTO.sleepTimeSeconds > 0

\* The days of the window, counted back from today, that qualify.
QualDays == {k \in 0..(Window - 1) : HasPositiveDuration(k)}

\* The sleep fetch fails: a date raises and no later date qualifies.
SleepFetchFails ==
    \E k \in 0..(Window - 1) :
        /\ sleepUp[today - k] = Raise
        /\ \A q \in QualDays : k < q

\* The dates get_today_stats() asked get_sleep_data for, in the order asked.
SleepFetches == SelectSeq(fetchLog, LAMBDA f : f.op = "get_sleep_data")

\* The last step was a get_today_stats() with a handle set.
StatsReturned == lastOp = "stats" /\ statsTrace.handleBefore # NoClient

SummaryUnusable == summaryUp \in {Raise, Null, EmptyDict}

ReadinessUnusable == readinessUp \in {Raise, Null, ListOf(<<>>)}

\* C5: in the snapshot of get_today_stats() with a handle set, each of body,
\* sleep and recovery is null whenever its fetch fails or returns no usable
\* data; an absent (None or empty) user summary gives body = null.
C5_NullWhenUnusable ==
    StatsReturned =>
      /\ SummaryUnusable => ("body" \in DOMAIN stats /\ stats.body = Null)
      /\ (SleepFetchFails \/ QualDays = {})
            => ("sleep" \in DOMAIN stats /\ stats.sleep = Null)
      /\ ReadinessUnusable => ("recovery" \in DOMAIN stats /\ stats.recovery = Null)

\* C6: whatever fetches raise, get_today_stats() returns a snapshot, makes
\* every fetch, and fills each sub-record whose fetch gave usable data:
\* sleep raising with a good summary gives sleep = null and a body.
C6_PartialFailureIsolation ==
    StatsReturned =>
      /\ "error" \notin DOMAIN stats
      /\ stats.date = Box(IsoFormat(today))
      /\ {fetchLog[i].op : i \in 1..Len(fetchLog)}
           = {"get_user_summary", "get_sleep_data", "get_training_readiness"}
      /\ ~SummaryUnusable
            => /\ "body" \in DOMAIN stats
               /\ stats.body # Null
               /\ stats.body.resting_hr = summaryUp.restingHeartRate
      /\ (QualDays # {} /\ ~SleepFetchFails)
            => ("sleep" \in DOMAIN stats /\ stats.sleep # Null)
      /\ SleepFetchFails => ("sleep" \in DOMAIN stats /\ stats.sleep = Null)
      /\ ~ReadinessUnusable
            => ("recovery" \in DOMAIN stats /\ stats.recovery # Null)

\* C6 witness: the sleep fetch raises on all 7 days and the readiness fetch
\* raises, the summary is good: sleep and recovery are null, body is filled.
C6_Witness ==
    /\ StatsReturned
    /\ \A k \in 0..(Window - 1) : sleepUp[today - k] = Raise
    /\ readinessUp = Raise
    /\ summaryUp = SummaryData
    /\ stats.sleep = Null
    /\ stats.recovery = Null
    /\ stats.body.body_battery.current = Box(60)

\* C7: when no sleep fetch raises, the sleep record's date is the most
\* recent of today and the 6 days before it whose record has
\* sleepTimeSeconds > 0, no older date is fetched, and sleep is null (after
\* all 7 dates were asked) when no date qualifies.
C7_SleepBackwardScan ==
    (/\ StatsReturned
     /\ \A i \in 1..Len(SleepFetches) : sleepUp[SleepFetches[i].date] # Raise)
    => IF QualDays = {}
       THEN /\ stats.sleep = Null
            /\ SleepFetches = [i \in 1..Window |-> Fetch("get_sleep_data", today - (i - 1))]
       ELSE LET first == CHOOSE k \in QualDays : \A q \in QualDays : k <= q
            IN  /\ stats.sleep # Null
                /\ stats.sleep.date = Box(IsoFormat(today - first))
                /\ SleepFetches
                     = [i \in 1..(first + 1) |-> Fetch("get_sleep_data", today - (i - 1))]

\* C7 witness: only the day 3 back has a positive duration, the later days
\* have records without one, and the sleep record is that day's.
C7_Witness ==
    /\ StatsReturned
    /\ QualDays = {3}
    /\ sleepUp[today] = SleepZero
    /\ sleepUp[today - 1] = SleepNoDuration
    /\ sleepUp[today - 2] = SleepZero
    /\ sleepUp[today - 4] = SleepNoDuration
    /\ stats.sleep # Null
    /\ stats.sleep.date = Box(IsoFormat(today - 3))
    /\ stats.sleep.stages.deep.pct = Box(25)

DayOf(iso) == CHOOSE n \in 1..51 : IsoFormat(n) = iso

\* The activities the last get_recent_activities() was handed by the upstream.
Fetched ==
    [i \in 1..(IF Len(activitiesUp) < 2 * actTrace.days THEN Len(activitiesUp)
               ELSE 2 * actTrace.days) |-> activitiesUp[i]]

\* Those of them that started on or after today - (days - 1).
OnOrAfterCutoff ==
    SelectSeq(Fetched, LAMBDA a :
        /\ "startTimeLocal" \in DOMAIN a
        /\ DayOf(a.startTimeLocal.date) >= today - (actTrace.days - 1))

\* C8: get_recent_activities(days) asks for the 2*days most recent
\* activities and returns, in upstream order, exactly those of them whose
\* local start date is on or after today - (days - 1).
C8_ActivityFilter ==
    (lastOp = "activities" /\ actTrace.handle /\ ~actTrace.raised) =>
      /\ actTrace.start = 0
      /\ actTrace.limit = 2 * actTrace.days
      /\ Len(recent) = Len(OnOrAfterCutoff)
      /\ \A i \in 1..Len(recent) :
            /\ recent[i].date = OnOrAfterCutoff[i].startTimeLocal.date
            /\ recent[i].name = OnOrAfterCutoff[i].activityName

\* C8 witness: days = 7 on 2024-01-10, with an activity of 2024-01-03 left
\* out and one of 2024-01-04 returned.
C8_Witness ==
    /\ lastOp = "activities" /\ actTrace.handle /\ ~actTrace.raised
    /\ today = 30
    /\ actTrace.days = 7
    /\ \E i \in 1..Len(activitiesUp) : activitiesUp[i] = Activity(23)
    /\ \E i \in 1..Len(activitiesUp) : activitiesUp[i] = Activity(24)
    /\ Len(recent) = 1
    /\ recent[1].date = <<2024, 1, 4>>

====
